---- MODULE Spec2Model ----
(***************************************************************************)
(* Model of the Mastodon OAuth2 adapter (src/adapter.py) and of the        *)
(* command line that drives it (src/mastodon_cli.py).                      *)
(*                                                                         *)
(* Spec     : one adapter instance, its OAuth2 session, and the four       *)
(*            adapter operations called in any order.                      *)
(* CliSpec  : the exchange, send-message and revoke commands, each a fresh *)
(*            process with a fresh adapter, and the JSON files they read   *)
(*            and write.                                                   *)
(*                                                                         *)
(* Python's None is the string "None", the empty string is "".  A provider *)
(* answer is an input of the action that receives it.                      *)
(***************************************************************************)
EXTENDS Integers, Sequences, FiniteSets, TLC

VARIABLES session, last, fs, cli

vars == <<session, last, fs, cli>>

None == "None"

Empty == ""

\* Python truthiness of an optional string: None and "" are falsy.
Truthy(x) == x \notin {None, Empty}

-----------------------------------------------------------------------------
(* Bounds and input sets *)

\* Longest scope string, counted in whitespace-separated words.
MaxScopeLen == 3

ScopeWords == {"profile", "write:statuses", "read"}

\* The sequences of at most n elements of S, no element twice.
RECURSIVE SeqsUpTo(_, _)
SeqsUpTo(S, n) ==
    IF n = 0 THEN {<<>>}
    ELSE LET shorter == SeqsUpTo(S, n - 1)
             longest == {s \in shorter : Len(s) = n - 1}
         IN  shorter \cup
             {Append(p[1], p[2]) :
                 p \in {q \in longest \X S :
                           \A i \in DOMAIN q[1] : q[1][i] # q[2]}}

\* A scope string is the sequence of its words.
ScopeStrings == SeqsUpTo(ScopeWords, MaxScopeLen)

AccessTokens == {"at1"}

RefreshTokens == {"rt1"}

\* Redirect URIs a caller may pass; None is "no override".
RedirectOverrides == {None, "https://other/cb"}

CallerVerifiers == {None, "v1"}

GeneratedVerifiers == {"gen1", "gen2"}

-----------------------------------------------------------------------------
(* DEFAULT_CONFIG and the credential file *)

\* DEFAULT_CONFIG["params"]["scope"]
DefaultScope == <<"profile", "write:statuses">>

\* DEFAULT_CONFIG["params"]["response_type"]
DefaultResponseType == "code"

\* creds["redirect_uris"][0] of the credential file
CredentialRedirectUris == <<"https://app/cb", "https://app/cb2">>

load_credentials ==
    [client_id |-> "cid", client_secret |-> "secret",
     redirect_uri |-> CredentialRedirectUris[1]]

-----------------------------------------------------------------------------
(* Tokens *)

NoToken == [kind |-> "none", access_token |-> None, refresh_token |-> None,
            scope |-> <<>>]

MkToken(a, r, s) == [kind |-> "token", access_token |-> a, refresh_token |-> r,
                     scope |-> s]

\* Every token response the token endpoint can give: the access token is
\* present or omitted, the refresh token present, empty or omitted.
TokenResponses ==
    {MkToken(a, r, s) : a \in AccessTokens \cup {None},
                        r \in RefreshTokens \cup {Empty, None},
                        s \in ScopeStrings}

\* str.split() followed by set(): the set of the words of the string.
SplitScope(s) == {s[i] : i \in DOMAIN s}

\* set(DEFAULT_CONFIG["params"]["scope"])
expected_scopes == {DefaultScope[i] : i \in DOMAIN DefaultScope}

-----------------------------------------------------------------------------
(* Provider answers *)

\* Answer of the token endpoint to fetch_token: a token, a provider OAuth
\* error (invalid_grant, ...) or a transport failure.
TokenEndpointAnswers ==
    {[kind |-> "token", token |-> t] : t \in TokenResponses}
    \cup {[kind |-> k, token |-> NoToken] : k \in {"oauth_error", "transport"}}

NoUserInfo == [kind |-> "none", account_identifier |-> None, name |-> None]

\* Answer of the userinfo endpoint: no answer (transport failure), or an
\* HTTP response with a success or error status and a JSON or non-JSON
\* body.  Only a success body carries the profile fields.
UserInfoAnswers ==
    {[kind |-> "transport", ok |-> FALSE, json |-> FALSE,
      preferred_username |-> None, name |-> None]}
    \cup {[kind |-> "response", ok |-> TRUE, json |-> TRUE,
           preferred_username |-> "alice", name |-> "Alice"]}
    \cup {[kind |-> "response", ok |-> o, json |-> j,
           preferred_username |-> None, name |-> None] :
              o \in BOOLEAN, j \in BOOLEAN}

NoUserInfoAnswer == [kind |-> "none", ok |-> FALSE, json |-> FALSE,
                     preferred_username |-> None, name |-> None]

-----------------------------------------------------------------------------
(* Results of an adapter call *)

NoError == [type |-> None, text |-> None, expected |-> {}, received |-> {}]

Error(type, text) == [type |-> type, text |-> text, expected |-> {}, received |-> {}]

\* ValueError(f"Invalid token: Scopes do not match. Expected: {expected_scopes},
\* Received: {fetched_scopes}")
ScopeError(expected, received) ==
    [type |-> "ValueError", text |-> "Invalid token: Scopes do not match.",
     expected |-> expected, received |-> received]

\* An outbound request: its endpoint, the token value it carries (None when
\* it carries none) and the redirect_uri it sends (None when it sends none).
Request(endpoint, token, redirect_uri) ==
    [endpoint |-> endpoint, token |-> token, redirect_uri |-> redirect_uri]

NoUrl == [redirect_uri |-> None, code_challenge_method |-> None,
          code_challenge |-> None]

\* What a call leaves behind: how it ended, what it returned or raised, the
\* requests it issued, and the provider answers it received; prior_access is
\* the access token the session held when a token-taking call began.
NoCall ==
    [op |-> "none", outcome |-> "none", error |-> NoError,
     token |-> NoToken, userinfo |-> NoUserInfo,
     success |-> FALSE, message |-> None, value |-> FALSE,
     code_verifier |-> None, redirect_uri |-> None, url |-> NoUrl,
     reqs |-> <<>>,
     arg_token |-> NoToken, arg_verifier |-> None, arg_autogenerate |-> FALSE,
     arg_redirect |-> None, rotated |-> FALSE, session_token |-> NoToken,
     prior_access |-> None,
     token_answer |-> "none", provided |-> NoToken,
     userinfo_answer |-> NoUserInfoAnswer,
     http |-> "none"]

\* An adapter operation yields the session it leaves and the call record,
\* which notes the token the session holds when the call ends.
Outcome(sess, call) ==
    [session |-> sess, call |-> [call EXCEPT !.session_token = sess.token]]

-----------------------------------------------------------------------------
(* MastodonOAuth2Adapter.__init__ *)

InitSession ==
    [redirect_uri |-> load_credentials.redirect_uri,
     code_challenge_method |-> None,
     token |-> NoToken]

-----------------------------------------------------------------------------
(* MastodonOAuth2Adapter.exchange_code_and_fetch_user_info *)

\* Variant: only a missing refresh token is replaced, an empty one is kept.
NormalizeRefreshToken_NoneOnly(token_response) ==
    IF token_response.refresh_token = None
    THEN [token_response EXCEPT !.refresh_token = token_response.access_token]
    ELSE token_response

\* if not token_response.get("refresh_token"):
\*     token_response["refresh_token"] = token_response.get("access_token")
NormalizeRefreshToken(token_response) ==
    IF ~Truthy(token_response.refresh_token)
    THEN [token_response EXCEPT !.refresh_token = token_response.access_token]
    ELSE token_response

\* Variant: the scope check is left out.
ScopesSufficient_Always(fetched_scopes) == TRUE

\* Variant: one granted required scope is enough.
ScopesSufficient_Overlap(fetched_scopes) == expected_scopes \cap fetched_scopes # {}

\* expected_scopes.issubset(fetched_scopes)
ScopesSufficient(fetched_scopes) == expected_scopes \subseteq fetched_scopes

\* userinfo = {"account_identifier": ....get("preferred_username"),
\*             "name": ....get("name")}
MapUserInfo(userinfo_response) ==
    [kind |-> "userinfo",
     account_identifier |-> userinfo_response.preferred_username,
     name |-> userinfo_response.name]

\* self.session.get(userinfo_uri).json(): the session signs the request with
\* its token's access_token and raises when the token has none; a transport
\* failure raises; the body of any HTTP response, whatever its status, is
\* parsed as JSON and a body that is not JSON raises.
FetchUserInfo(sess, call, ui) ==
    LET token == sess.token
        req   == Request("userinfo_uri", token.access_token, None)
        sent  == [call EXCEPT !.reqs = Append(@, req), !.userinfo_answer = ui]
    IN  IF token.access_token = None
        THEN [call EXCEPT !.outcome = "raised",
                          !.error = Error("OAuthError", "unsupported_token_type")]
        ELSE IF ui.kind = "transport"
        THEN [sent EXCEPT !.outcome = "raised",
                          !.error = Error("RequestException", None)]
        ELSE IF ~ui.json
        THEN [sent EXCEPT !.outcome = "raised",
                          !.error = Error("JSONDecodeError", None)]
        ELSE [sent EXCEPT !.outcome = "returned",
                          !.token = token,
                          !.userinfo = MapUserInfo(ui)]

\* Variant: a failed token request is sent a second time.
FetchTokenRequests_Retry(sess) ==
    <<Request("token_uri", None, sess.redirect_uri),
      Request("token_uri", None, sess.redirect_uri)>>

\* self.session.fetch_token(token_uri, code=code, **kwargs): one request to
\* the token endpoint, carrying the session's redirect_uri.
FetchTokenRequests(sess) == <<Request("token_uri", None, sess.redirect_uri)>>

exchange_code_and_fetch_user_info(sess, redirect_url, ta, ui) ==
    LET s1   == IF Truthy(redirect_url)
                THEN [sess EXCEPT !.redirect_uri = redirect_url] ELSE sess
        call == [NoCall EXCEPT !.op = "exchange",
                               !.arg_redirect = redirect_url,
                               !.token_answer = ta.kind,
                               !.reqs = FetchTokenRequests(s1)]
    IN  IF ta.kind = "transport"
        THEN Outcome(s1, [call EXCEPT !.outcome = "raised",
                                      !.error = Error("RequestException", None)])
        ELSE IF ta.kind = "oauth_error"
        THEN Outcome(s1, [call EXCEPT !.outcome = "raised",
                                      !.error = Error("OAuthError", "invalid_grant")])
        ELSE
          \* fetch_token stores the token in the session and returns that
          \* same object, so the normalisation below is seen by the session.
          LET token_response == NormalizeRefreshToken(ta.token)
              s2             == [s1 EXCEPT !.token = token_response]
              fetched_scopes == SplitScope(token_response.scope)
              got            == [call EXCEPT !.provided = ta.token]
          IN  IF ~ScopesSufficient(fetched_scopes)
              THEN Outcome(s2, [got EXCEPT !.outcome = "raised",
                                           !.error = ScopeError(expected_scopes,
                                                                fetched_scopes)])
              ELSE Outcome(s2, FetchUserInfo(s2, got, ui))

-----------------------------------------------------------------------------
(* MastodonOAuth2Adapter.get_authorization_url *)

\* generate_token(48) when auto-generation is asked for and the caller gave
\* no verifier; otherwise the caller's verifier.
EffectiveVerifier(code_verifier, autogenerate_code_verifier, generated) ==
    IF autogenerate_code_verifier /\ ~Truthy(code_verifier)
    THEN generated ELSE code_verifier

\* Variant: the verifier is sent as a plain challenge.
ChallengeMethod_Plain(code_verifier, current) ==
    IF Truthy(code_verifier) THEN "plain" ELSE current

\* self.session.code_challenge_method = "S256" whenever a verifier is in
\* effect; otherwise the session keeps the method it has.
ChallengeMethod(code_verifier, current) ==
    IF Truthy(code_verifier) THEN "S256" ELSE current

\* create_s256_code_challenge(code_verifier)
S256Challenge(code_verifier) == [alg |-> "SHA-256", of |-> code_verifier]

\* OAuth2Session.create_authorization_url: the query carries the session's
\* redirect_uri, and a code challenge when a verifier is given, the response
\* type is "code" and the session's method is S256.
create_authorization_url(sess, code_verifier) ==
    IF Truthy(code_verifier) /\ DefaultResponseType = "code"
       /\ sess.code_challenge_method = "S256"
    THEN [redirect_uri |-> sess.redirect_uri,
          code_challenge_method |-> sess.code_challenge_method,
          code_challenge |-> S256Challenge(code_verifier).of]
    ELSE [redirect_uri |-> sess.redirect_uri,
          code_challenge_method |-> None,
          code_challenge |-> None]

get_authorization_url(sess, verifier, autogenerate, redirect_url, generated) ==
    LET code_verifier == EffectiveVerifier(verifier, autogenerate, generated)
        s1 == [sess EXCEPT !.code_challenge_method =
                               ChallengeMethod(code_verifier, @)]
        s2 == IF Truthy(redirect_url)
              THEN [s1 EXCEPT !.redirect_uri = redirect_url] ELSE s1
    IN  Outcome(s2, [NoCall EXCEPT !.op = "get_authorization_url",
                                   !.outcome = "returned",
                                   !.arg_verifier = verifier,
                                   !.arg_autogenerate = autogenerate,
                                   !.arg_redirect = redirect_url,
                                   !.url = create_authorization_url(s2, code_verifier),
                                   !.code_verifier = code_verifier,
                                   !.redirect_uri = s2.redirect_uri])

-----------------------------------------------------------------------------
(* MastodonOAuth2Adapter.revoke_token *)

\* Variant: a token the session already holds is kept.
AttachToken_KeepExisting(sess, token) ==
    IF sess.token.kind = "token" THEN sess ELSE [sess EXCEPT !.token = token]

\* self.session.token = token
AttachToken(sess, token) == [sess EXCEPT !.token = token]

RevokeAnswers == {"ok", "http_error", "oauth_error", "transport"}

\* OAuth2Session.revoke_token posts the session token's refresh_token, or
\* its access_token when it has no refresh_token.
RevokedValue(token) ==
    IF Truthy(token.refresh_token) THEN token.refresh_token ELSE token.access_token

\* Variant: the status of the response is not looked at.
ResponseOk_Always(answer) == TRUE

\* response.ok: the HTTP status is a success status.
ResponseOk(answer) == answer = "ok"

revoke_token(sess, token, answer) ==
    LET s1   == AttachToken(sess, token)
        call == [NoCall EXCEPT !.op = "revoke_token",
                               !.arg_token = token,
                               !.prior_access = sess.token.access_token,
                               !.http = answer,
                               !.reqs = <<Request("revoke_uri",
                                                  RevokedValue(s1.token), None)>>]
    IN  IF answer = "transport"
        THEN Outcome(s1, [call EXCEPT !.outcome = "raised",
                                      !.error = Error("RequestException", None)])
        ELSE IF answer = "oauth_error"
        THEN Outcome(s1, [call EXCEPT !.outcome = "raised",
                                      !.error = Error("OAuthError", "invalid_token")])
        ELSE IF ~ResponseOk(answer)
        THEN Outcome(s1, [call EXCEPT !.outcome = "raised",
                                      !.error = Error("RuntimeError", "error body")])
        ELSE Outcome(s1, [call EXCEPT !.outcome = "returned", !.value = TRUE])

-----------------------------------------------------------------------------
(* MastodonOAuth2Adapter.send_message *)

SendAnswers == {"ok", "http_error", "transport"}

\* What the session does with its token before it signs the request
\* (OAuth2Session.ensure_active_token): nothing while the token is live; an
\* expired token is refreshed with its refresh_token (the token is rotated,
\* or the refresh fails), and an expired token without one is rejected.
TokenEvents == {"active", "rotated", "refresh_failed", "expired"}

TokenEventPossible(token, event) ==
    CASE event = "active"  -> TRUE
      [] event = "expired" -> ~Truthy(token.refresh_token)
      [] OTHER             -> Truthy(token.refresh_token)

\* A refresh answer brings a new access token and a new refresh token or
\* none; without a new one the session keeps the old refresh token.
RefreshAnswers == {[access_token |-> "at2", refresh_token |-> r] : r \in {"rt2", None}}

RotateToken(token, fresh) ==
    [token EXCEPT !.access_token = fresh.access_token,
                  !.refresh_token = IF fresh.refresh_token = None
                                    THEN @ ELSE fresh.refresh_token]

\* except requests.exceptions.HTTPError: the only exception send_message
\* turns into a result.
CaughtBySendMessage(error) == error.type = "HTTPError"

\* if not response.ok: raise RuntimeError(response.text)
RaiseForResponse(answer) ==
    IF ResponseOk(answer) THEN NoError ELSE Error("RuntimeError", "error body")

send_message(sess, token, event, fresh, answer) ==
    LET s1   == AttachToken(sess, token)
        call == [NoCall EXCEPT !.op = "send_message",
                               !.arg_token = token,
                               !.prior_access = sess.token.access_token]
    IN  IF event \in {"refresh_failed", "expired"}
        THEN Outcome(s1, [call EXCEPT !.outcome = "raised",
                                      !.error = Error("OAuthError", "invalid_token")])
        ELSE
          LET s2    == IF event = "rotated"
                       THEN [s1 EXCEPT !.token = RotateToken(token, fresh)] ELSE s1
              c2    == [call EXCEPT !.rotated = (event = "rotated")]
              sent  == [c2 EXCEPT !.http = answer,
                                  !.reqs = <<Request("send_message_uri",
                                                     s2.token.access_token, None)>>]
              error == RaiseForResponse(answer)
          IN  IF s2.token.access_token = None
              THEN Outcome(s2, [c2 EXCEPT !.outcome = "raised",
                                 !.error = Error("OAuthError", "unsupported_token_type")])
              ELSE IF answer = "transport"
              THEN Outcome(s2, [sent EXCEPT !.outcome = "raised",
                                            !.error = Error("RequestException", None)])
              ELSE IF error = NoError
              THEN Outcome(s2, [sent EXCEPT !.outcome = "returned",
                                            !.success = TRUE,
                                            !.token = s2.token])
              ELSE IF CaughtBySendMessage(error)
              THEN Outcome(s2, [sent EXCEPT !.outcome = "returned",
                                            !.success = FALSE,
                                            !.message = error.text,
                                            !.token = s2.token])
              ELSE Outcome(s2, [sent EXCEPT !.outcome = "raised", !.error = error])

-----------------------------------------------------------------------------
(* JSON files *)

FileNames == {"token.json", "out.json"}

\* A file is absent, holds something that is not JSON, or holds a JSON
\* object.  Of an object the keys token, userinfo and redirect_uri are
\* followed; a key that is missing holds NoToken, NoUserInfo or None.
AbsentFile == [kind |-> "absent", token |-> NoToken, userinfo |-> NoUserInfo,
               redirect_uri |-> None]

MalformedFile == [kind |-> "malformed", token |-> NoToken, userinfo |-> NoUserInfo,
                  redirect_uri |-> None]

\* existing_data = {}
EmptyObject == [kind |-> "json", token |-> NoToken, userinfo |-> NoUserInfo,
                redirect_uri |-> None]

\* "token": {} or "token": null, a key that is present and falsy.
EmptyToken == [kind |-> "empty", access_token |-> None, refresh_token |-> None,
               scope |-> <<>>]

\* What one command leaves behind: how it ended ("early": it returned before
\* building the adapter; "done": it ran to its end; "failed": its except
\* clause printed the failure; "crashed": an exception left the command),
\* its file arguments, the token it read, the adapter call it made and the
\* file it wrote (None when it wrote none).
NoCommand == [cmd |-> "none", status |-> "none", output |-> None,
              token_file |-> None, input_file |-> None,
              read_token |-> NoToken, call |-> NoCall, wrote |-> None]

-----------------------------------------------------------------------------
(* One adapter instance, called in any order *)

\* Tokens a caller may hand to send_message and revoke_token.
CallerTokens ==
    {MkToken("at1", "rt1", DefaultScope),
     MkToken("at1", "at1", DefaultScope),
     MkToken("at0", Empty, DefaultScope)}

Init ==
    /\ session = InitSession
    /\ last = NoCall
    /\ fs = [f \in FileNames |-> AbsentFile]
    /\ cli = NoCommand

GetAuthorizationUrl ==
    \E verifier \in CallerVerifiers, autogenerate \in BOOLEAN,
       redirect_url \in RedirectOverrides, generated \in GeneratedVerifiers :
        LET r == get_authorization_url(session, verifier, autogenerate,
                                       redirect_url, generated)
        IN  /\ session' = r.session
            /\ last' = r.call
            /\ UNCHANGED <<fs, cli>>

ExchangeCodeAndFetchUserInfo ==
    \E redirect_url \in RedirectOverrides, ta \in TokenEndpointAnswers,
       ui \in UserInfoAnswers :
        LET r == exchange_code_and_fetch_user_info(session, redirect_url, ta, ui)
        IN  /\ session' = r.session
            /\ last' = r.call
            /\ UNCHANGED <<fs, cli>>

RevokeToken ==
    \E token \in CallerTokens, answer \in RevokeAnswers :
        LET r == revoke_token(session, token, answer)
        IN  /\ session' = r.session
            /\ last' = r.call
            /\ UNCHANGED <<fs, cli>>

SendMessage ==
    \E token \in CallerTokens, event \in TokenEvents, fresh \in RefreshAnswers,
       answer \in SendAnswers :
        /\ TokenEventPossible(token, event)
        /\ LET r == send_message(session, token, event, fresh, answer)
           IN  /\ session' = r.session
               /\ last' = r.call
               /\ UNCHANGED <<fs, cli>>

Next ==
    \/ GetAuthorizationUrl
    \/ ExchangeCodeAndFetchUserInfo
    \/ RevokeToken
    \/ SendMessage

Spec == Init /\ [][Next]_vars

-----------------------------------------------------------------------------
(* The commands of mastodon_cli.py.  Each is one process: it builds a fresh *)
(* adapter, calls it once and reads and writes files.                       *)

Ran(files, command) == [fs |-> files, cli |-> command]

\* try: json.load(open(output)) except FileNotFoundError: existing_data = {}
LoadOrEmpty(file) == IF file.kind = "absent" THEN EmptyObject ELSE file

\* Variant: the output is written from scratch.
MergeExchange_Overwrite(existing_data, token, userinfo) ==
    [EmptyObject EXCEPT !.token = token, !.userinfo = userinfo]

\* existing_data.update({"token": ..., "userinfo": ...})
MergeExchange(existing_data, token, userinfo) ==
    [existing_data EXCEPT !.token = token, !.userinfo = userinfo]

\* Variant: only the refreshed token is written.
MergeRefreshed_Overwrite(existing_data, refreshed_token) ==
    [EmptyObject EXCEPT !.token = refreshed_token]

\* existing_data.update({"token": refreshed_token})
MergeRefreshed(existing_data, refreshed_token) ==
    [existing_data EXCEPT !.token = refreshed_token]

\* Variant: the whole object is emptied.
PopToken_Clear(existing_data) == EmptyObject

\* existing_data.pop("token", None)
PopToken(existing_data) == [existing_data EXCEPT !.token = NoToken]

\* Variant: only a missing key counts as no token.
TokenFound_KeyPresent(token) == token.kind # "none"

\* if not token: a missing token key, null and {} are all falsy.
TokenFound(token) == token.kind = "token"

\* Variant: the command carries on after a failed call.
Raised_Never(call) == FALSE

\* The adapter call ended in an exception: the rest of the try body (or of
\* the command, where there is no try) is skipped.
Raised(call) == call.outcome = "raised"

\* The exchange command.
exchange(files, redirect, output, input_file, ta, ui) ==
    LET command   == [NoCommand EXCEPT !.cmd = "exchange", !.output = output,
                                       !.input_file = input_file]
        params    == IF input_file = None THEN EmptyObject ELSE files[input_file]
        redirect2 == IF Truthy(redirect) THEN redirect ELSE params.redirect_uri
        r         == exchange_code_and_fetch_user_info(InitSession, redirect2, ta, ui)
        called    == [command EXCEPT !.call = r.call]
    IN  IF params.kind = "absent"
        THEN Ran(files, [command EXCEPT !.status = "early"])
        ELSE IF params.kind = "malformed"
        THEN Ran(files, [command EXCEPT !.status = "crashed"])
        ELSE IF Raised(r.call)
        THEN Ran(files, [called EXCEPT !.status = "crashed"])
        ELSE IF output = None
        THEN Ran(files, [called EXCEPT !.status = "done"])
        ELSE IF files[output].kind = "malformed"
        THEN Ran(files, [called EXCEPT !.status = "crashed"])
        ELSE Ran([files EXCEPT ![output] =
                      MergeExchange(LoadOrEmpty(@), r.call.token, r.call.userinfo)],
                 [called EXCEPT !.status = "done", !.wrote = output])

\* The send-message command.
send_message_command(files, token_file, output, event, fresh, answer) ==
    LET source  == files[token_file]
        token   == source.token
        command == [NoCommand EXCEPT !.cmd = "send-message", !.output = output,
                                     !.token_file = token_file]
        read    == [command EXCEPT !.read_token = token]
        r       == send_message(InitSession, token, event, fresh, answer)
        called  == [read EXCEPT !.call = r.call]
        refreshed_token == r.call.token
    IN  IF source.kind = "absent"
        THEN Ran(files, [command EXCEPT !.status = "early"])
        ELSE IF source.kind = "malformed"
        THEN Ran(files, [command EXCEPT !.status = "crashed"])
        ELSE IF ~TokenFound(token)
        THEN Ran(files, [command EXCEPT !.status = "early"])
        ELSE IF Raised(r.call)
        THEN Ran(files, [called EXCEPT !.status = "failed"])
        ELSE IF output = None \/ refreshed_token = token
        THEN Ran(files, [called EXCEPT !.status = "done"])
        ELSE IF files[output].kind = "malformed"
        THEN Ran(files, [called EXCEPT !.status = "failed"])
        ELSE Ran([files EXCEPT ![output] =
                      MergeRefreshed(LoadOrEmpty(@), refreshed_token)],
                 [called EXCEPT !.status = "done", !.wrote = output])

\* The revoke command.
revoke(files, token_file, output, answer) ==
    LET source  == files[token_file]
        token   == source.token
        command == [NoCommand EXCEPT !.cmd = "revoke", !.output = output,
                                     !.token_file = token_file]
        read    == [command EXCEPT !.read_token = token]
        r       == revoke_token(InitSession, token, answer)
        called  == [read EXCEPT !.call = r.call]
    IN  IF source.kind = "absent"
        THEN Ran(files, [command EXCEPT !.status = "early"])
        ELSE IF source.kind = "malformed"
        THEN Ran(files, [command EXCEPT !.status = "crashed"])
        ELSE IF ~TokenFound(token)
        THEN Ran(files, [command EXCEPT !.status = "early"])
        ELSE IF Raised(r.call)
        THEN Ran(files, [called EXCEPT !.status = "failed"])
        ELSE IF output = None
        THEN Ran(files, [called EXCEPT !.status = "done"])
        ELSE IF files[output].kind = "malformed"
        THEN Ran(files, [called EXCEPT !.status = "failed"])
        ELSE Ran([files EXCEPT ![output] = PopToken(LoadOrEmpty(@))],
                 [called EXCEPT !.status = "done", !.wrote = output])

\* Files the commands may find when they start.
StoredToken == MkToken("at1", "rt1", DefaultScope)

StartFiles ==
    {AbsentFile, MalformedFile}
    \cup {[kind |-> "json", token |-> t, userinfo |-> NoUserInfo, redirect_uri |-> u] :
             t \in {NoToken, EmptyToken, StoredToken},
             u \in {None, "https://other/cb"}}

\* The file the commands write (--output), or None without the option; the
\* token file is one of the two files, so it may be the output file itself.
OutputArgs == {"out.json", None}

\* Provider answers the exchange command is run against.
CliTokenEndpointAnswers ==
    {a \in TokenEndpointAnswers :
        a.kind = "token" => /\ a.token.access_token # None
                            /\ a.token.refresh_token = None
                            /\ a.token.scope \in {DefaultScope, <<"profile">>}}

CliUserInfoAnswers ==
    {u \in UserInfoAnswers : u.kind = "response" => u.json}

CliInit ==
    /\ session = InitSession
    /\ last = NoCall
    /\ fs \in [FileNames -> StartFiles]
    /\ cli = NoCommand

CliExchange ==
    \E redirect \in RedirectOverrides, output \in OutputArgs,
       input_file \in OutputArgs, ta \in CliTokenEndpointAnswers,
       ui \in CliUserInfoAnswers :
        LET r == exchange(fs, redirect, output, input_file, ta, ui)
        IN  /\ fs' = r.fs
            /\ cli' = r.cli
            /\ UNCHANGED <<session, last>>

CliSendMessage ==
    \E token_file \in FileNames, output \in OutputArgs, event \in TokenEvents,
       fresh \in RefreshAnswers, answer \in SendAnswers :
        /\ TokenEventPossible(fs[token_file].token, event)
        /\ LET r == send_message_command(fs, token_file, output, event, fresh, answer)
           IN  /\ fs' = r.fs
               /\ cli' = r.cli
               /\ UNCHANGED <<session, last>>

CliRevoke ==
    \E token_file \in FileNames, output \in OutputArgs, answer \in RevokeAnswers :
        LET r == revoke(fs, token_file, output, answer)
        IN  /\ fs' = r.fs
            /\ cli' = r.cli
            /\ UNCHANGED <<session, last>>

CliNext ==
    \/ CliExchange
    \/ CliSendMessage
    \/ CliRevoke

CliSpec == CliInit /\ [][CliNext]_vars

-----------------------------------------------------------------------------
(* Properties of the adapter (Spec) *)

\* R, the required scope set.
RequiredScopes == {"profile", "write:statuses"}

\* G, the words of the scope string the token endpoint granted.
GrantedScopes == {last.provided.scope[i] : i \in 1..Len(last.provided.scope)}

\* The last call was an exchange whose token request was answered by a token.
TokenIssued == last.op = "exchange" /\ last.token_answer = "token"

\* The userinfo request was sent and answered with a JSON body.
UserInfoFetched ==
    last.userinfo_answer.kind = "response" /\ last.userinfo_answer.json

\* C1 as stated: once the token endpoint has returned a token, the exchange
\* succeeds iff R is a subset of G, and otherwise fails with a validation
\* error naming the expected and the received scope sets.
C1_SucceedsIffScopes ==
    TokenIssued =>
        /\ (last.outcome = "returned") <=> (RequiredScopes \subseteq GrantedScopes)
        /\ last.outcome # "returned" =>
              /\ last.error.type = "ValueError"
              /\ last.error.expected = RequiredScopes
              /\ last.error.received = GrantedScopes

\* C1 amended: once the token endpoint has returned a token, the exchange
\* fails with the validation error naming the expected and the received
\* scope sets iff R is not a subset of G; it succeeds only if R is a subset
\* of G, and then exactly when the userinfo request is answered with a JSON
\* body.
C1_ScopeCheck ==
    TokenIssued =>
        /\ (last.error.type = "ValueError") <=> ~(RequiredScopes \subseteq GrantedScopes)
        /\ last.error.type = "ValueError" =>
              /\ last.outcome = "raised"
              /\ last.error.expected = RequiredScopes
              /\ last.error.received = GrantedScopes
        /\ (last.outcome = "returned") <=>
              (RequiredScopes \subseteq GrantedScopes /\ UserInfoFetched)

C1_Witness ==
    /\ TokenIssued
    /\ last.outcome = "raised"
    /\ last.error.type = "ValueError"
    /\ last.error.received = {"profile", "read"}
    /\ last.error.expected = RequiredScopes

\* C2: every successful exchange returns a token whose refresh_token is
\* non-empty, whatever token response the provider gave; when the provider
\* omitted the refresh token, it equals the access token.
C2_RefreshTokenPresent ==
    (last.op = "exchange" /\ last.outcome = "returned") =>
        /\ Truthy(last.token.refresh_token)
        /\ last.provided.refresh_token = None =>
              last.token.refresh_token = last.provided.access_token

C2_Witness ==
    /\ last.op = "exchange"
    /\ last.outcome = "returned"
    /\ last.provided.refresh_token = None
    /\ last.token.refresh_token = "at1"

\* The userinfo request failed: no answer, or a non-success HTTP response.
UserInfoFailed ==
    \/ last.userinfo_answer.kind = "transport"
    \/ last.userinfo_answer.kind = "response" /\ ~last.userinfo_answer.ok

\* C3: if the userinfo request fails, the exchange fails and returns
\* nothing; it never returns a token with a null identity.
C3_AllOrNothing ==
    (last.op = "exchange" /\ UserInfoFailed) =>
        /\ last.outcome = "raised"
        /\ last.token = NoToken
        /\ last.userinfo = NoUserInfo

\* C4: send_message returns a result on a success response and on an HTTP
\* error response alike: success tells which, an error response gives the
\* provider's error body as message, and refreshed_token is the session's
\* current token.
C4_ResultOnBothOutcomes ==
    (last.op = "send_message" /\ last.http \in {"ok", "http_error"}) =>
        /\ last.outcome = "returned"
        /\ last.success = (last.http = "ok")
        /\ last.http = "http_error" => last.message = "error body"
        /\ last.token = session.token

\* C6: revoke_token returns true, and only on a success status, or raises;
\* a non-success response or an OAuth error never yields a returned value.
C6_RevocationBinary ==
    last.op = "revoke_token" =>
        /\ last.outcome \in {"returned", "raised"}
        /\ last.outcome = "returned" => (last.value = TRUE /\ last.http = "ok")
        /\ last.http # "ok" => (last.outcome = "raised" /\ last.error # NoError)

C6_Witness ==
    /\ last.op = "revoke_token"
    /\ last.http = "http_error"
    /\ last.outcome = "raised"
    /\ last.error.type = "RuntimeError"

\* C9: get_authorization_url returns a verifier iff the caller supplied one
\* or asked for auto-generation; with a verifier the session's challenge
\* method (and the URL's) is S256, never plain; a supplied verifier is
\* returned as it is.
C9_PkceAlwaysS256 ==
    last.op = "get_authorization_url" =>
        /\ (last.code_verifier # None) <=>
              (last.arg_verifier # None \/ last.arg_autogenerate)
        /\ last.code_verifier # None =>
              /\ session.code_challenge_method = "S256"
              /\ last.url.code_challenge_method = "S256"
              /\ last.url.code_challenge = last.code_verifier
        /\ last.arg_verifier # None => last.code_verifier = last.arg_verifier

C9_Witness ==
    /\ last.op = "get_authorization_url"
    /\ last.arg_verifier = None
    /\ last.arg_autogenerate
    /\ last.code_verifier \in GeneratedVerifiers
    /\ session.code_challenge_method = "S256"

\* C13: an exchange sends exactly one token request, and sends it first; if
\* it fails with a transport or provider OAuth error that error reaches the
\* caller and no userinfo request is made; a userinfo request is made only
\* after a token request that was answered by a token.
C13_TokenRequestOnceAndFirst ==
    last.op = "exchange" =>
        /\ Cardinality({i \in DOMAIN last.reqs :
                           last.reqs[i].endpoint = "token_uri"}) = 1
        /\ last.reqs[1].endpoint = "token_uri"
        /\ last.token_answer \in {"transport", "oauth_error"} =>
              /\ last.outcome = "raised"
              /\ last.error.type = IF last.token_answer = "transport"
                                   THEN "RequestException" ELSE "OAuthError"
              /\ Len(last.reqs) = 1
        /\ \A i \in DOMAIN last.reqs :
              last.reqs[i].endpoint = "userinfo_uri" =>
                  (i > 1 /\ last.token_answer = "token")

C13_Witness ==
    /\ last.op = "exchange"
    /\ last.token_answer = "oauth_error"
    /\ last.outcome = "raised"
    /\ last.error.type = "OAuthError"
    /\ Len(last.reqs) = 1

\* C14: on one adapter instance, whatever calls came before, a
\* get_authorization_url or exchange call without a redirect override uses
\* the first redirect_uris entry of the credential file; an override of an
\* earlier call does not carry over.
C14_DefaultRedirectStable ==
    /\ (last.op = "get_authorization_url" /\ last.arg_redirect = None) =>
          /\ last.redirect_uri = CredentialRedirectUris[1]
          /\ last.url.redirect_uri = CredentialRedirectUris[1]
    /\ (last.op = "exchange" /\ last.arg_redirect = None) =>
          last.reqs[1].redirect_uri = CredentialRedirectUris[1]

\* The request of a send_message or revoke_token call that reached the
\* point of sending one.
TokenCallSent ==
    last.op \in {"send_message", "revoke_token"} /\ last.reqs # <<>>

\* C15 as stated: whatever an earlier operation left in the session,
\* send_message signs its request with the access token of the token given
\* as argument, and revoke_token posts the refresh token (else the access
\* token) of the token given as argument.
C15_ArgumentTokenUsed ==
    TokenCallSent =>
        last.reqs[1].token =
            IF last.op = "send_message" THEN last.arg_token.access_token
            ELSE IF Truthy(last.arg_token.refresh_token)
                 THEN last.arg_token.refresh_token
                 ELSE last.arg_token.access_token

\* C15 amended: as stated, except that send_message signs with the access
\* token of the refreshed token when the session refreshed the (expired)
\* argument token before sending; the refreshed token comes from the
\* argument token, never from what the session held before.
C15_ArgumentTokenOrItsRefreshUsed ==
    TokenCallSent =>
        /\ (last.op = "send_message" /\ ~last.rotated) =>
              last.reqs[1].token = last.arg_token.access_token
        /\ (last.op = "send_message" /\ last.rotated) =>
              /\ last.reqs[1].token = last.session_token.access_token
              /\ \E fresh \in RefreshAnswers :
                    last.session_token = RotateToken(last.arg_token, fresh)
        /\ last.op = "revoke_token" =>
              last.reqs[1].token =
                  IF Truthy(last.arg_token.refresh_token)
                  THEN last.arg_token.refresh_token
                  ELSE last.arg_token.access_token

C15_Witness ==
    /\ last.op = "send_message"
    /\ last.prior_access = "at1"
    /\ last.arg_token.access_token = "at0"
    /\ ~last.rotated
    /\ Len(last.reqs) = 1
    /\ last.reqs[1].token = "at0"
    /\ last.outcome = "returned"

-----------------------------------------------------------------------------
(* Properties of the commands (CliSpec) *)

\* C5: a send-message command with --output whose token was rotated during
\* the call and whose request was answered by an HTTP error still writes the
\* rotated token to the (readable) output file under the key token.
C5_RotationSurvivesFailedSend ==
    (/\ cli.cmd = "send-message"
     /\ cli.output # None
     /\ cli.call.rotated
     /\ cli.call.session_token # cli.read_token
     /\ cli.call.http = "http_error") =>
        \/ fs[cli.output].kind = "malformed"
        \/ /\ fs[cli.output].kind = "json"
           /\ fs[cli.output].token = cli.call.session_token

\* C7: after a revoke command that succeeds with --output, the output file
\* has no token key and its other keys are as before; a file loses its token
\* key only in a revoke command whose revocation the provider confirmed.
C7_RevokeReflected ==
    [][ /\ (cli'.cmd = "revoke" /\ cli'.status = "done" /\ cli'.output # None) =>
              /\ fs'[cli'.output].kind = "json"
              /\ fs'[cli'.output].token = NoToken
              /\ fs'[cli'.output].userinfo = fs[cli'.output].userinfo
              /\ fs'[cli'.output].redirect_uri = fs[cli'.output].redirect_uri
        /\ \A f \in FileNames :
              (fs[f].token # NoToken /\ fs'[f].token = NoToken) =>
                  /\ cli'.cmd = "revoke"
                  /\ cli'.output = f
                  /\ cli'.call.outcome = "returned"
                  /\ cli'.call.value = TRUE
                  /\ cli'.call.http = "ok"
      ]_vars

C7_Witness ==
    /\ cli.cmd = "revoke"
    /\ cli.status = "done"
    /\ cli.output = "out.json"
    /\ cli.token_file = "out.json"
    /\ TokenFound(cli.read_token)
    /\ fs["out.json"].token = NoToken
    /\ fs["out.json"].userinfo # NoUserInfo
    /\ fs["out.json"].redirect_uri # None

\* C8: when the adapter operation of an exchange, send-message or revoke
\* command raises, the files after the command are the files before it.
C8_NoWriteOnFatalError ==
    [][ (cli'.cmd \in {"exchange", "send-message", "revoke"}
         /\ cli'.call.outcome = "raised") => fs' = fs ]_vars

C8_Witness ==
    /\ cli.cmd = "exchange"
    /\ cli.output = "out.json"
    /\ cli.call.outcome = "raised"
    /\ cli.call.error.type = "ValueError"
    /\ cli.status = "crashed"
    /\ fs["out.json"].kind = "json"

\* C10: after a successful exchange command with --output, the output file's
\* token and userinfo are those of the exchange result and its other keys
\* are as before; a file that did not exist holds exactly token and userinfo.
C10_ExchangeMerges ==
    [][ (cli'.cmd = "exchange" /\ cli'.status = "done" /\ cli'.output # None) =>
            /\ cli'.call.outcome = "returned"
            /\ fs'[cli'.output].kind = "json"
            /\ fs'[cli'.output].token = cli'.call.token
            /\ fs'[cli'.output].userinfo = cli'.call.userinfo
            /\ fs'[cli'.output].redirect_uri = fs[cli'.output].redirect_uri
            /\ fs[cli'.output].kind = "absent" =>
                  fs'[cli'.output] = [kind |-> "json", token |-> cli'.call.token,
                                      userinfo |-> cli'.call.userinfo,
                                      redirect_uri |-> None]
            /\ \A f \in FileNames \ {cli'.output} : fs'[f] = fs[f]
      ]_vars

C10_Witness ==
    /\ cli.cmd = "exchange"
    /\ cli.status = "done"
    /\ cli.output = "out.json"
    /\ fs["out.json"].token = cli.call.token
    /\ fs["out.json"].token.kind = "token"
    /\ fs["out.json"].userinfo = cli.call.userinfo
    /\ fs["out.json"].redirect_uri # None

\* The requests of a call that went to the given endpoint.
RequestsTo(call, endpoint) ==
    {i \in DOMAIN call.reqs : call.reqs[i].endpoint = endpoint}

\* The exchange of the command got a token whose scopes do not cover R.
InsufficientToken(command) ==
    /\ command.cmd = "exchange"
    /\ command.call.token_answer = "token"
    /\ ~(RequiredScopes \subseteq
            {command.call.provided.scope[i] :
                i \in 1..Len(command.call.provided.scope)})

\* C11: a token whose granted scopes do not cover the required scopes is
\* discarded before use: the exchange sends no userinfo request with it,
\* returns no token to the caller, and the exchange command writes no file.
C11_InsufficientTokenDiscarded ==
    [][ InsufficientToken(cli') =>
            /\ RequestsTo(cli'.call, "userinfo_uri") = {}
            /\ cli'.call.outcome = "raised"
            /\ cli'.call.token = NoToken
            /\ cli'.status = "crashed"
            /\ fs' = fs
      ]_vars

C11_Witness ==
    /\ InsufficientToken(cli)
    /\ cli.output = "out.json"
    /\ cli.call.provided.access_token = "at1"
    /\ cli.call.session_token.access_token = "at1"
    /\ cli.call.error.type = "ValueError"
    /\ Len(cli.call.reqs) = 1
    /\ fs["out.json"].kind = "absent"

\* The send-message command got a result whose refreshed_token is not the
\* token it read, and --output was given.
RefreshedTokenToSave(command) ==
    /\ command.output # None
    /\ command.call.outcome = "returned"
    /\ command.call.token # command.read_token

\* What a rewrite by send-message leaves: the refreshed token under token,
\* the other keys of the output file as before, the other file as it was.
RefreshedTokenSaved ==
    /\ fs'[cli'.wrote].kind = "json"
    /\ fs'[cli'.wrote].token = cli'.call.token
    /\ fs'[cli'.wrote].userinfo = fs[cli'.wrote].userinfo
    /\ fs'[cli'.wrote].redirect_uri = fs[cli'.wrote].redirect_uri
    /\ \A f \in FileNames \ {cli'.wrote} : fs'[f] = fs[f]

\* C12 as stated: send-message rewrites the output file iff --output is
\* given, the adapter returned a result and its refreshed_token differs from
\* the token read; a rewrite sets token and keeps the other keys; without a
\* rewrite the files are untouched.
C12_RewritesIffRefreshed ==
    [][ cli'.cmd = "send-message" =>
            /\ (cli'.wrote # None) <=> RefreshedTokenToSave(cli')
            /\ cli'.wrote # None => (cli'.wrote = cli'.output /\ RefreshedTokenSaved)
            /\ cli'.wrote = None => fs' = fs
      ]_vars

\* C12 amended: as stated, with one more condition for the rewrite: the
\* output file is absent or holds a JSON object.
C12_RewritesIffRefreshedAndReadable ==
    [][ cli'.cmd = "send-message" =>
            /\ (cli'.wrote # None) <=>
                  (RefreshedTokenToSave(cli') /\ fs[cli'.output].kind # "malformed")
            /\ cli'.wrote # None => (cli'.wrote = cli'.output /\ RefreshedTokenSaved)
            /\ cli'.wrote = None => fs' = fs
      ]_vars

C12_Witness ==
    /\ cli.cmd = "send-message"
    /\ cli.token_file = "token.json"
    /\ cli.wrote = "out.json"
    /\ cli.call.rotated
    /\ cli.call.token # cli.read_token
    /\ fs["out.json"].token = cli.call.token
    /\ fs["out.json"].redirect_uri # None
    /\ fs["token.json"].token = cli.read_token

\* The token file named by the command is absent, or is a JSON object whose
\* token key is missing or empty, in the given files.
TokenInputMissing(files, command) ==
    /\ command.cmd \in {"send-message", "revoke"}
    /\ \/ files[command.token_file].kind = "absent"
       \/ /\ files[command.token_file].kind = "json"
          /\ files[command.token_file].token.kind \in {"none", "empty"}

\* C16: a send-message or revoke command whose token file does not exist or
\* has no (or an empty) token key ends without calling the adapter (no
\* request is sent) and without writing a file.
C16_MissingTokenStopsEarly ==
    [][ TokenInputMissing(fs, cli') =>
            /\ cli'.status = "early"
            /\ cli'.call = NoCall
            /\ cli'.call.reqs = <<>>
            /\ cli'.wrote = None
            /\ fs' = fs
      ]_vars

C16_Witness ==
    /\ TokenInputMissing(fs, cli)
    /\ cli.cmd = "revoke"
    /\ cli.output = "out.json"
    /\ cli.token_file = "out.json"
    /\ fs["out.json"].token = EmptyToken
    /\ cli.status = "early"
    /\ cli.call = NoCall

====
